---- MODULE Spec2Model ----
(***************************************************************************)
(* Renderer-side components of the disk-flashing application:              *)
(*   - the URL dialog of the source selector and its recent-URL list,      *)
(*   - the settings dialog,                                                *)
(*   - the target selector,                                                *)
(*   - the source selector's image selection flows.                        *)
(* Strings are sequences of one-character strings, so that emptiness and   *)
(* prefixes are computed, not assumed.                                     *)
(***************************************************************************)
EXTENDS Integers, Sequences, FiniteSets, TLC

VARIABLES
    \* ---- URL dialog (URLSelector) and local storage
    localStorage,      \* the item stored under recentUrlImagesKey
    showURLSelector,   \* SourceSelector state: the URL dialog is mounted
    imageURL,          \* URLSelector state: the text of the input
    recentImages,      \* URLSelector state: the list shown under "Recent"
    loading,           \* URLSelector state: done was pressed
    fetched,           \* the mount effect (fetchRecentUrlImages) has run
    lastConfirmed,     \* the argument of the latest done (<<>>: none yet)
    written,           \* setRecentUrlImages has run at least once
    \* ---- settings dialog (SettingsModal) and the settings store
    settingsStore,     \* the key-value settings store
    hideUpdates,       \* packageType is rpm or deb
    settingsList,      \* SettingsModal state: the list of toggles
    currentSettings,   \* SettingsModal state: the displayed values
    pendingList,       \* getSettingsList promises not yet resolved
    pendingAll,        \* settings.getAll promises not yet resolved
    toggles,           \* toggleSetting calls awaiting settings.set
    displayIsStored,   \* currentSettings is the very object the store hands
                       \* out
    listCalls,         \* getSettingsList calls issued since the mount,
                       \* modulo LoadsWidth
    getAllCalls,       \* settings.getAll calls issued since the mount,
                       \* modulo LoadsWidth
    foundSettings,     \* the store as it was when the dialog was mounted
    negations,         \* per setting, whether toggleSetting was called never
                       \* (0), an odd (1) or an even (2) number of times
    \* ---- the selection-state store
    availableDrives,   \* the devices of the drives the store knows
    selectedDevices,   \* the selected devices, in the order of selection
    selectedImage,     \* <<>> or <<image>>: the selected source image
    \* ---- target selector (TargetSelector)
    targetSelector,    \* "unmounted", "rendered" or "subscribed"
    stateSlice,        \* TargetSelector state: the mirrored slice
    showTargetSelectorModal,
    lastCall,          \* the latest selectAllTargets call, while it is the
                       \* latest step
    \* ---- source selector (SourceSelector)
    warning,           \* SourceSelector state: <<>> or <<title>>
    ops,               \* the selectImageByPath and selectDriveAsImage calls
    ipc                \* the latest 'select-image' message and its handling

recentVars == <<localStorage, showURLSelector, imageURL, recentImages, loading,
                fetched, lastConfirmed, written>>

settingsVars == <<settingsStore, hideUpdates, settingsList, currentSettings,
                  pendingList, pendingAll, toggles, displayIsStored, listCalls,
                  getAllCalls, foundSettings, negations>>

storeVars == <<availableDrives, selectedDevices, selectedImage>>

targetVars == <<targetSelector, stateSlice, showTargetSelectorModal, lastCall>>

sourceVars == <<warning, ops, ipc>>

vars == <<recentVars, settingsVars, storeVars, targetVars, sourceVars>>

\* What the actions of one component leave alone.
notRecent == <<settingsVars, storeVars, targetVars, sourceVars>>
notSettings == <<recentVars, storeVars, targetVars, sourceVars>>
notTarget == <<recentVars, settingsVars, sourceVars>>
notSource == <<recentVars, settingsVars>>

-----------------------------------------------------------------------------
(* Generic helpers on sequences.                                           *)

Range(s) == { s[i] : i \in 1..Len(s) }

NoDuplicates(s) == \A i, j \in 1..Len(s) : s[i] = s[j] => i = j

\* _.startsWith(s, p)
StartsWith(s, p) == Len(s) >= Len(p) /\ SubSeq(s, 1, Len(p)) = p

-----------------------------------------------------------------------------
(* JavaScript values that can sit in the recent-URL array, and the JSON    *)
(* text of local storage.                                                  *)

JsString(chars) == [t |-> "string", v |-> chars]
JsNumber(chars) == [t |-> "number", v |-> chars]
JsArray(items) == [t |-> "array", items |-> items]
JsObject == [t |-> "object", items |-> <<>>]

JsonString(chars) == [j |-> "string", v |-> chars]
JsonNumber(chars) == [j |-> "number", v |-> chars]

\* What localStorage.getItem can find under the key.
ItemAbsent == [kind |-> "absent", items |-> <<>>]     \* getItem returns null
ItemGarbage == [kind |-> "garbage", items |-> <<>>]   \* text JSON.parse rejects
ItemObject == [kind |-> "object", items |-> <<>>]     \* JSON of a non-array
ItemArray(items) == [kind |-> "array", items |-> items]

\* JSON.parse of one array element.
JSONparseScalar(x) ==
    IF x.j = "string" THEN JsString(x.v) ELSE JsNumber(x.v)

\* JSON.stringify of one array element.
JSONstringifyScalar(x) ==
    IF x.t = "string" THEN JsonString(x.v) ELSE JsonNumber(x.v)

\* JSON.parse(localStorage.getItem(key) || '[]'): thrown is TRUE when the
\* text is not JSON.
JSONparse(item) ==
    CASE item.kind = "absent"  -> [thrown |-> FALSE, value |-> JsArray(<<>>)]
      [] item.kind = "garbage" -> [thrown |-> TRUE, value |-> JsObject]
      [] item.kind = "object"  -> [thrown |-> FALSE, value |-> JsObject]
      [] OTHER -> [thrown |-> FALSE,
                   value |-> JsArray([i \in 1..Len(item.items) |->
                                        JSONparseScalar(item.items[i])])]

\* JSON.stringify of an array of scalars.
JSONstringify(list) ==
    ItemArray([i \in 1..Len(list) |-> JSONstringifyScalar(list[i])])

-----------------------------------------------------------------------------
(* lodash, as used by normalizeRecentUrlImages.                            *)

isString(x) == x.t = "string"
isEmpty(x) == Len(x.v) = 0

\* _.filter(s, _.isString)
FilterIsString(s) == SelectSeq(s, isString)

\* _.reject(s, _.isEmpty)
RejectIsEmpty(s) == LET Keep(x) == ~isEmpty(x) IN SelectSeq(s, Keep)

\* _.uniq: the first occurrence of every value, in order.
RECURSIVE Uniq(_)
Uniq(s) ==
    IF s = <<>> THEN <<>>
    ELSE LET init == Uniq(SubSeq(s, 1, Len(s) - 1))
             last == s[Len(s)]
         IN  IF last \in Range(init) THEN init ELSE Append(init, last)

\* _.takeRight(s, n): the last n elements.
TakeRight(s, n) == IF Len(s) <= n THEN s ELSE SubSeq(s, Len(s) - n + 1, Len(s))

RecentCap == 5

\* Mutants of normalizeRecentUrlImages.
normalizeNoCap(urls) ==
    Uniq(RejectIsEmpty(FilterIsString(
        IF urls.t = "array" THEN urls.items ELSE <<>>)))

normalizeNoUniq(urls) ==
    TakeRight(RejectIsEmpty(FilterIsString(
        IF urls.t = "array" THEN urls.items ELSE <<>>)), RecentCap)

normalizeTakeLeft(urls) ==
    LET list == Uniq(RejectIsEmpty(FilterIsString(
                    IF urls.t = "array" THEN urls.items ELSE <<>>)))
    IN  IF Len(list) <= RecentCap THEN list ELSE SubSeq(list, 1, RecentCap)

normalizeRecentUrlImages(urls) ==
    LET array == IF urls.t = "array" THEN urls.items ELSE <<>>
    IN  TakeRight(Uniq(RejectIsEmpty(FilterIsString(array))), RecentCap)

getRecentUrlImages(item) ==
    LET parsed == JSONparse(item)
        urls == IF parsed.thrown THEN JsArray(<<>>) ELSE parsed.value
    IN  normalizeRecentUrlImages(urls)

\* The item setRecentUrlImages(urls) stores.
setRecentUrlImages(urls) ==
    JSONstringify(normalizeRecentUrlImages(JsArray(urls)))

-----------------------------------------------------------------------------
(* Bounds and input sets of the URL dialog.                                *)

MaxRawLen == 2        \* length of the arbitrary arrays found in storage
MaxLongLen == 7       \* length of the long arrays found in storage

Letters == <<"a", "b", "c", "d", "e", "f">>

\* What the user can type: the empty text and six distinct non-empty texts.
UrlTexts == { <<Letters[i]>> : i \in 1..Len(Letters) }
TypedTexts == UrlTexts \cup {<<>>}

\* What an array found in storage can hold.
RawItems == { JsonString(u) : u \in TypedTexts } \cup {JsonNumber(<<"7">>)}

RawArrays == UNION { [1..n -> RawItems] : n \in 0..MaxRawLen }

\* Arrays longer than the cap that cycle through the six texts.
LongArrays ==
    { [i \in 1..n |-> JsonString(<<Letters[((i + k) % Len(Letters)) + 1]>>)] :
        n \in (RecentCap + 1)..MaxLongLen, k \in 0..(Len(Letters) - 1) }

InitialItems ==
    {ItemAbsent, ItemGarbage, ItemObject}
        \cup { ItemArray(a) : a \in RawArrays \cup LongArrays }

-----------------------------------------------------------------------------
(* The URL dialog.                                                         *)

RecentIdle ==
    /\ localStorage = ItemAbsent
    /\ showURLSelector = FALSE
    /\ imageURL = <<>>
    /\ recentImages = <<>>
    /\ loading = FALSE
    /\ fetched = FALSE
    /\ lastConfirmed = <<>>
    /\ written = FALSE

RecentInit ==
    /\ localStorage \in InitialItems
    /\ showURLSelector = FALSE
    /\ imageURL = <<>>
    /\ recentImages = <<>>
    /\ loading = FALSE
    /\ fetched = FALSE
    /\ lastConfirmed = <<>>
    /\ written = FALSE

\* SourceSelector.openURLSelector: the dialog mounts with its initial state.
openURLSelector ==
    /\ ~showURLSelector
    /\ showURLSelector' = TRUE
    /\ imageURL' = <<>>
    /\ recentImages' = <<>>
    /\ loading' = FALSE
    /\ fetched' = FALSE
    /\ UNCHANGED <<localStorage, lastConfirmed, written>>
    /\ UNCHANGED notRecent

\* The mount effect: it runs before the dialog handles any input.
fetchRecentUrlImages ==
    /\ showURLSelector
    /\ ~fetched
    /\ recentImages' = getRecentUrlImages(localStorage)
    /\ fetched' = TRUE
    /\ UNCHANGED <<localStorage, showURLSelector, imageURL, loading,
                   lastConfirmed, written>>
    /\ UNCHANGED notRecent

\* Input onChange.
setImageURL(text) ==
    /\ showURLSelector
    /\ fetched
    /\ imageURL' = text
    /\ UNCHANGED <<localStorage, showURLSelector, recentImages, loading,
                   fetched, lastConfirmed, written>>
    /\ UNCHANGED notRecent

\* A click on the i-th recent entry.
clickRecent(i) ==
    /\ showURLSelector
    /\ fetched
    /\ i \in 1..Len(recentImages)
    /\ imageURL' = recentImages[i].v
    /\ UNCHANGED <<localStorage, showURLSelector, recentImages, loading,
                   fetched, lastConfirmed, written>>
    /\ UNCHANGED notRecent

\* The list URLSelector's done hands to setRecentUrlImages.
sanitizedRecentUrls(recent, url) ==
    normalizeRecentUrlImages(JsArray(Append(recent, JsString(url))))

\* The dialog's done, up to its await of props.done(imageURL); the primary
\* button is disabled while loading or while the input is empty.
URLSelectorDone ==
    /\ showURLSelector
    /\ fetched
    /\ ~loading
    /\ imageURL # <<>>
    /\ loading' = TRUE
    /\ localStorage' =
           setRecentUrlImages(sanitizedRecentUrls(recentImages, imageURL))
    /\ written' = TRUE
    /\ lastConfirmed' = imageURL
    /\ UNCHANGED <<showURLSelector, imageURL, recentImages, fetched>>
    /\ UNCHANGED notRecent

\* props.done returns: selectImageByPath has finished and the source
\* selector unmounts the dialog, whose state is dropped. (A return that
\* arrives after a cancel finds showURLSelector FALSE, or closes a dialog
\* opened since, which is the step URLSelectorCancel takes.)
URLSelectorDoneReturns ==
    /\ showURLSelector
    /\ loading
    /\ showURLSelector' = FALSE
    /\ imageURL' = <<>>
    /\ recentImages' = <<>>
    /\ loading' = FALSE
    /\ fetched' = FALSE
    /\ UNCHANGED <<localStorage, lastConfirmed, written>>
    /\ UNCHANGED notRecent

\* The dialog's cancel: the dialog unmounts and its state is dropped.
URLSelectorCancel ==
    /\ showURLSelector
    /\ showURLSelector' = FALSE
    /\ imageURL' = <<>>
    /\ recentImages' = <<>>
    /\ loading' = FALSE
    /\ fetched' = FALSE
    /\ UNCHANGED <<localStorage, lastConfirmed, written>>
    /\ UNCHANGED notRecent

RecentNext ==
    \/ openURLSelector
    \/ fetchRecentUrlImages
    \/ \E text \in TypedTexts : setImageURL(text)
    \/ \E i \in 1..RecentCap : clickRecent(i)
    \/ URLSelectorDone
    \/ URLSelectorDoneReturns
    \/ URLSelectorCancel

-----------------------------------------------------------------------------
(* The settings dialog.  A dictionary is a function from the keys it holds  *)
(* to booleans; reading a missing key gives undefined.                      *)

MaxToggles == 2       \* toggleSetting calls in flight
MaxPending == 2       \* promises of one kind in flight
LoadsWidth == 4       \* the calls of one kind are counted modulo LoadsWidth

EmptyDictionary == [k \in {} |-> TRUE]

\* dictionary[key], as "true", "false" or "undefined".
Lookup(dictionary, key) ==
    IF key \in DOMAIN dictionary
    THEN IF dictionary[key] THEN "true" ELSE "false"
    ELSE "undefined"

\* !value
Negate(value) == value # "true"

\* { ...dictionary, [key]: value }
Assign(dictionary, key, value) ==
    [k \in DOMAIN dictionary \cup {key} |->
        IF k = key THEN value ELSE dictionary[k]]

\* _.isEmpty of a dictionary or of a list.
isEmptyDictionary(dictionary) == DOMAIN dictionary = {}

\* What getSettingsList resolves with.
getSettingsList ==
    << [name |-> "errorReporting", hide |-> FALSE],
       [name |-> "unmountOnSuccess", hide |-> FALSE],
       [name |-> "validateWriteOnSuccess", hide |-> FALSE],
       [name |-> "updatesEnabled", hide |-> hideUpdates] >>

SettingNames == {"errorReporting", "unmountOnSuccess", "validateWriteOnSuccess",
                 "updatesEnabled"}

\* The checkboxes the dialog renders.
renderedSettings ==
    { settingsList[i].name : i \in { j \in 1..Len(settingsList) :
                                        ~settingsList[j].hide } }

\* The two effects, which run after every render: the number of
\* getSettingsList calls and of settings.getAll calls they issue.
effectGetSettingsList(list) == IF Len(list) = 0 THEN 1 ELSE 0
effectGetAll(current) == IF isEmptyDictionary(current) THEN 1 ELSE 0

\* The checkboxes the user clicks.
ClickedSettings == {"errorReporting", "updatesEnabled"}

\* The store a settings dialog can find: no key at all, or every key, with
\* errorReporting and updatesEnabled on or off.
InitialStores ==
    {EmptyDictionary} \cup
        { [k \in SettingNames |->
             CASE k = "errorReporting" -> reporting
               [] k = "updatesEnabled" -> updates
               [] OTHER -> TRUE] : reporting, updates \in BOOLEAN }

\* The dialog after its first render and the effects of that render.
SettingsInit ==
    /\ settingsStore \in InitialStores
    /\ hideUpdates \in BOOLEAN
    /\ settingsList = <<>>
    /\ currentSettings = EmptyDictionary
    /\ pendingList = effectGetSettingsList(<<>>)
    /\ pendingAll = effectGetAll(EmptyDictionary)
    /\ toggles = <<>>
    /\ displayIsStored = FALSE
    /\ listCalls = effectGetSettingsList(<<>>)
    /\ getAllCalls = effectGetAll(EmptyDictionary)
    /\ foundSettings = settingsStore
    /\ negations = [setting \in ClickedSettings |-> 0]

SettingsDialogIdle ==
    /\ hideUpdates = FALSE
    /\ settingsList = <<>>
    /\ currentSettings = EmptyDictionary
    /\ pendingList = 0
    /\ pendingAll = 0
    /\ toggles = <<>>
    /\ displayIsStored = FALSE
    /\ listCalls = 0
    /\ getAllCalls = 0
    /\ foundSettings = EmptyDictionary
    /\ negations = [setting \in ClickedSettings |-> 0]

SettingsIdle == settingsStore = EmptyDictionary /\ SettingsDialogIdle

\* A render with the state (list, current), followed by its effects.
renderSettings(list, current, resolvedList, resolvedAll) ==
    /\ settingsList' = list
    /\ currentSettings' = current
    /\ pendingList' = pendingList - resolvedList + effectGetSettingsList(list)
    /\ pendingAll' = pendingAll - resolvedAll + effectGetAll(current)
    /\ listCalls' = (listCalls + effectGetSettingsList(list)) % LoadsWidth
    /\ getAllCalls' = (getAllCalls + effectGetAll(current)) % LoadsWidth

\* await getSettingsList() resolves: setCurrentSettingsList.
resolveGetSettingsList ==
    /\ pendingList > 0
    /\ pendingAll + effectGetAll(currentSettings) <= MaxPending
    /\ renderSettings(getSettingsList, currentSettings, 1, 0)
    /\ UNCHANGED <<settingsStore, hideUpdates, toggles, displayIsStored,
                   foundSettings, negations>>
    /\ UNCHANGED notSettings

\* await settings.getAll() resolves with the store: setCurrentSettings.  The
\* store hands out a fresh copy or its own object; a state set to the
\* object it already holds causes no render and no effect.
resolveGetAll(fresh) ==
    /\ pendingAll > 0
    /\ IF ~fresh /\ displayIsStored
       THEN /\ pendingAll' = pendingAll - 1
            /\ UNCHANGED <<settingsList, currentSettings, pendingList,
                           listCalls, getAllCalls, displayIsStored>>
       ELSE /\ pendingList + effectGetSettingsList(settingsList) <= MaxPending
            /\ renderSettings(settingsList, settingsStore, 0, 1)
            /\ displayIsStored' = ~fresh
    /\ UNCHANGED <<settingsStore, hideUpdates, toggles, foundSettings,
                   negations>>
    /\ UNCHANGED notSettings

\* toggleSetting up to its await: the closure's value is read and
\* settings.set(setting, !value) writes the store.
toggleSettingStart(setting) ==
    /\ setting \in renderedSettings
    /\ Len(toggles) < MaxToggles
    /\ LET value == Lookup(currentSettings, setting)
       IN  /\ settingsStore' = Assign(settingsStore, setting, Negate(value))
           /\ toggles' = Append(toggles, [setting |-> setting, value |-> value,
                                          closure |-> currentSettings])
    /\ negations' = [negations EXCEPT
                         ![setting] = IF @ = 2 THEN 1 ELSE @ + 1]
    /\ UNCHANGED <<hideUpdates, settingsList, currentSettings, pendingList,
                   pendingAll, displayIsStored, listCalls, getAllCalls,
                   foundSettings>>
    /\ UNCHANGED notSettings

\* The state toggleSetting sets once settings.set has resolved.
toggledSettings(call) == Assign(call.closure, call.setting, Negate(call.value))

\* toggles without its i-th call.
withoutCall(i) ==
    SubSeq(toggles, 1, i - 1) \o SubSeq(toggles, i + 1, Len(toggles))

\* settings.set resolves for the i-th call in flight: setCurrentSettings.
toggleSettingComplete(i) ==
    /\ i \in 1..Len(toggles)
    /\ pendingList + effectGetSettingsList(settingsList) <= MaxPending
    /\ renderSettings(settingsList, toggledSettings(toggles[i]), 0, 0)
    /\ toggles' = withoutCall(i)
    /\ displayIsStored' = FALSE
    /\ UNCHANGED <<settingsStore, hideUpdates, foundSettings, negations>>
    /\ UNCHANGED notSettings

SettingsNext ==
    \/ resolveGetSettingsList
    \/ \E fresh \in BOOLEAN : resolveGetAll(fresh)
    \/ \E setting \in ClickedSettings : toggleSettingStart(setting)
    \/ \E i \in 1..MaxToggles : toggleSettingComplete(i)

-----------------------------------------------------------------------------
(* The selection-state store and the drives.                               *)

MaxModalTargets == 2  \* length of the list the target modal hands over

Devices == {"sda", "sdb", "sdc"}

\* The drive the scanner reports for a device.
Drive(device) ==
    [device |-> device,
     description |-> CASE device = "sda" -> <<"A">>
                       [] device = "sdb" -> <<"B">>
                       [] OTHER -> <<"C">>,
     displayName |-> CASE device = "sda" -> <<"/", "a">>
                       [] device = "sdb" -> <<"/", "b">>
                       [] OTHER -> <<"/", "c">>]

\* The images another component can have put in the store.
OtherImages ==
    { [path |-> <<"/", "x">>, hasMBR |-> TRUE, extension |-> <<>>],
      [path |-> <<"/", "y">>, hasMBR |-> FALSE, extension |-> <<>>] }

\* The lists the target modal can hand to done.
ModalTargetLists ==
    UNION { [1..n -> { Drive(d) : d \in Devices }] : n \in 0..MaxModalTargets }

getSelectedDrives(selected) == [i \in 1..Len(selected) |-> Drive(selected[i])]

getImage(image) == image

isDriveSelected(selected, device) == device \in Range(selected)

\* The store after deselectDrive(device).
deselectDrive(selected, device) ==
    LET Keep(d) == d # device IN SelectSeq(selected, Keep)

\* The store accepts selectDrive(device) for an available drive only.
acceptsDrive(available, device) == device \in available

\* The store after an accepted selectDrive(device).
selectDrive(selected, device) ==
    IF device \in Range(selected) THEN selected ELSE Append(selected, device)

\* The store after the scanner reports the drives: a selected drive that is
\* gone is deselected.
setDrives(selected, available) ==
    LET Keep(d) == d \in available IN SelectSeq(selected, Keep)

-----------------------------------------------------------------------------
(* The target selector.                                                    *)

\* `${drive.description} (${drive.displayName})`
driveLabel(drive) ==
    drive.description \o <<" ", "(">> \o drive.displayName \o <<")">>

\* labels.join('\n')
RECURSIVE joinLines(_)
joinLines(labels) ==
    IF Len(labels) = 0 THEN <<>>
    ELSE IF Len(labels) = 1 THEN labels[1]
    ELSE labels[1] \o <<"\n">> \o joinLines(Tail(labels))

getDriveListLabel(selected) ==
    LET drives == getSelectedDrives(selected)
    IN  joinLines([i \in 1..Len(drives) |-> driveLabel(drives[i])])

shouldShowDrivesButton(settings) ==
    Negate(Lookup(settings, "disableExplicitDriveSelection"))

getDriveSelectionStateSlice(settings, selected, image) ==
    [showDrivesButton |-> shouldShowDrivesButton(settings),
     driveListLabel |-> getDriveListLabel(selected),
     targets |-> getSelectedDrives(selected),
     image |-> getImage(image)]

\* Mutant of onStoreChange: the callback keeps the slice it has.
onStoreChangeStale(settings, selected, image) == stateSlice

\* The callback TargetSelector hands to observe.
onStoreChange(settings, selected, image) ==
    getDriveSelectionStateSlice(settings, selected, image)

\* observe calls its callback at once and then after every change of the
\* store, until it is unsubscribed.
notifyTargetSelector(selected, image) ==
    stateSlice' = IF targetSelector = "subscribed"
                  THEN onStoreChange(settingsStore, selected, image)
                  ELSE stateSlice

NoSlice == [showDrivesButton |-> FALSE, driveListLabel |-> <<>>,
            targets |-> <<>>, image |-> <<>>]

NoCall == [called |-> FALSE, before |-> <<>>, modalTargets |-> <<>>,
           log |-> <<>>, thrown |-> FALSE]

toggleEvent(device, previouslySelected) ==
    [kind |-> "Toggle drive", device |-> device,
     previouslySelected |-> previouslySelected]

storeCall(name, device) ==
    [kind |-> name, device |-> device, previouslySelected |-> FALSE]

\* deselected.forEach: the selection and the log after the drives are
\* processed.
RECURSIVE deselectEach(_, _)
deselectEach(run, drives) ==
    IF Len(drives) = 0 THEN run
    ELSE deselectEach(
             [selected |-> deselectDrive(run.selected, drives[1].device),
              log |-> run.log \o <<toggleEvent(drives[1].device, TRUE),
                                   storeCall("deselectDrive", drives[1].device)>>,
              thrown |-> FALSE],
             Tail(drives))

\* Mutant of selectEach: the event is sent for every modal target.
RECURSIVE selectEachAlwaysLogs(_, _, _)
selectEachAlwaysLogs(run, drives, available) ==
    IF Len(drives) = 0 THEN run
    ELSE LET device == drives[1].device
             log == run.log \o <<toggleEvent(device, FALSE),
                                 storeCall("selectDrive", device)>>
         IN  IF acceptsDrive(available, device)
             THEN selectEachAlwaysLogs(
                      [selected |-> selectDrive(run.selected, device),
                       log |-> log, thrown |-> FALSE],
                      Tail(drives), available)
             ELSE [selected |-> run.selected, log |-> log, thrown |-> TRUE]

\* modalTargets.forEach: a selectDrive the store rejects throws, which ends
\* the loop.
RECURSIVE selectEach(_, _, _)
selectEach(run, drives, available) ==
    IF Len(drives) = 0 THEN run
    ELSE LET device == drives[1].device
             events == IF ~isDriveSelected(run.selected, device)
                       THEN <<toggleEvent(device, FALSE)>> ELSE <<>>
             log == run.log \o events \o <<storeCall("selectDrive", device)>>
         IN  IF acceptsDrive(available, device)
             THEN selectEach([selected |-> selectDrive(run.selected, device),
                              log |-> log, thrown |-> FALSE],
                             Tail(drives), available)
             ELSE [selected |-> run.selected, log |-> log, thrown |-> TRUE]

\* Mutant of deselectedDrives: every selected drive is deselected.
deselectedDrivesAll(selected, modalTargets) == getSelectedDrives(selected)

\* selectedDrivesFromState.filter(...)
deselectedDrives(selected, modalTargets) ==
    LET Gone(drive) ==
            ~\E i \in 1..Len(modalTargets) :
                modalTargets[i].device = drive.device
    IN  SelectSeq(getSelectedDrives(selected), Gone)

selectAllTargets(selected, modalTargets, available) ==
    selectEach(
        deselectEach([selected |-> selected, log |-> <<>>, thrown |-> FALSE],
                     deselectedDrives(selected, modalTargets)),
        modalTargets, available)

InitialSettingsOfTarget ==
    { EmptyDictionary,
      [k \in {"disableExplicitDriveSelection"} |-> TRUE],
      [k \in {"disableExplicitDriveSelection"} |-> FALSE] }

StoreIdle ==
    /\ availableDrives = {}
    /\ selectedDevices = <<>>
    /\ selectedImage = <<>>

TargetIdle ==
    /\ targetSelector = "unmounted"
    /\ stateSlice = NoSlice
    /\ showTargetSelectorModal = FALSE
    /\ lastCall = NoCall

TargetInit ==
    /\ availableDrives \in SUBSET Devices
    /\ selectedDevices = <<>>
    /\ selectedImage = <<>>
    /\ TargetIdle

\* The first render: useState(getDriveSelectionStateSlice()).
mountTargetSelector ==
    /\ targetSelector = "unmounted"
    /\ targetSelector' = "rendered"
    /\ stateSlice' = getDriveSelectionStateSlice(settingsStore, selectedDevices,
                                                 selectedImage)
    /\ showTargetSelectorModal' = FALSE
    /\ lastCall' = NoCall
    /\ UNCHANGED storeVars
    /\ UNCHANGED notTarget

\* The mount effect: observe subscribes and calls the callback.
observeStore ==
    /\ targetSelector = "rendered"
    /\ targetSelector' = "subscribed"
    /\ stateSlice' = onStoreChange(settingsStore, selectedDevices, selectedImage)
    /\ lastCall' = NoCall
    /\ UNCHANGED <<showTargetSelectorModal, storeVars>>
    /\ UNCHANGED notTarget

\* The unmount: the effect's cleanup unsubscribes, the state is dropped.
unmountTargetSelector ==
    /\ targetSelector = "subscribed"
    /\ targetSelector' = "unmounted"
    /\ stateSlice' = NoSlice
    /\ showTargetSelectorModal' = FALSE
    /\ lastCall' = NoCall
    /\ UNCHANGED storeVars
    /\ UNCHANGED notTarget

\* openDriveSelector and reselectDrive.
openTargetSelectorModal ==
    /\ targetSelector = "subscribed"
    /\ ~showTargetSelectorModal
    /\ showTargetSelectorModal' = TRUE
    /\ lastCall' = NoCall
    /\ UNCHANGED <<targetSelector, stateSlice, storeVars>>
    /\ UNCHANGED notTarget

\* The modal's cancel.
cancelTargetSelectorModal ==
    /\ showTargetSelectorModal
    /\ showTargetSelectorModal' = FALSE
    /\ lastCall' = NoCall
    /\ UNCHANGED <<targetSelector, stateSlice, storeVars>>
    /\ UNCHANGED notTarget

\* The modal's done: selectAllTargets, then the modal closes unless a
\* selectDrive threw.
doneTargetSelectorModal(modalTargets) ==
    /\ showTargetSelectorModal
    /\ LET run == selectAllTargets(selectedDevices, modalTargets, availableDrives)
       IN  /\ selectedDevices' = run.selected
           /\ notifyTargetSelector(run.selected, selectedImage)
           /\ showTargetSelectorModal' = run.thrown
           /\ lastCall' = [called |-> TRUE, before |-> selectedDevices,
                           modalTargets |-> modalTargets, log |-> run.log,
                           thrown |-> run.thrown]
    /\ UNCHANGED <<targetSelector, availableDrives, selectedImage>>
    /\ UNCHANGED notTarget

\* The scanner reports another set of drives.
driveListChanged(available) ==
    /\ available # availableDrives
    /\ availableDrives' = available
    /\ selectedDevices' = setDrives(selectedDevices, available)
    /\ notifyTargetSelector(selectedDevices', selectedImage)
    /\ lastCall' = NoCall
    /\ UNCHANGED <<targetSelector, showTargetSelectorModal, selectedImage>>
    /\ UNCHANGED notTarget

\* Another component selects or deselects the image.
imageChanged(image) ==
    /\ image # selectedImage
    /\ selectedImage' = image
    /\ notifyTargetSelector(selectedDevices, image)
    /\ lastCall' = NoCall
    /\ UNCHANGED <<targetSelector, showTargetSelectorModal, availableDrives,
                   selectedDevices>>
    /\ UNCHANGED notTarget

TargetNext ==
    \/ mountTargetSelector
    \/ observeStore
    \/ unmountTargetSelector
    \/ openTargetSelectorModal
    \/ cancelTargetSelectorModal
    \/ \E modalTargets \in ModalTargetLists :
           doneTargetSelectorModal(modalTargets)
    \/ \E available \in SUBSET Devices : driveListChanged(available)
    \/ \E image \in {<<>>} \cup { <<i>> : i \in OtherImages } :
           imageChanged(image)

-----------------------------------------------------------------------------
(* The source selector: selectImageByPath and selectDriveAsImage are        *)
(* asynchronous, one step of the model per await.                           *)

MaxOps == 1           \* calls in progress at once

\* Paths and URLs the flows can be given.
PathPlain == <<"/", "a", ".", "i">>
PathWindows == <<"/", "w">>
PathNetworkDrive == <<"Z", ":", "a">>
PathShare == <<"/", "/", "s", "/", "a">>
UrlHttp == <<"h", "t", "t", "p", ":", "/", "/", "a">>
UrlHttps == <<"h", "t", "t", "p", "s", ":", "/", "/", "b">>
UrlFtp == <<"f", "t", "p", ":", "/", "/", "a">>
DevicePath == <<"/", "d">>

FilePaths == {PathWindows, PathNetworkDrive}
DroppedPaths == {PathPlain}
UrlInputs == {UrlHttp, UrlHttps, UrlFtp}
IpcPaths == {PathPlain, UrlHttps, UrlFtp}

SchemeHttps == <<"h", "t", "t", "p", "s", ":", "/", "/">>
SchemeHttp == <<"h", "t", "t", "p", ":", "/", "/">>

\* The index of the last c in s, 0 when there is none.
RECURSIVE lastIndexOf(_, _)
lastIndexOf(s, c) ==
    IF Len(s) = 0 THEN 0
    ELSE IF s[Len(s)] = c THEN Len(s)
    ELSE lastIndexOf(SubSeq(s, 1, Len(s) - 1), c)

\* path.basename(p)
basename(p) == SubSeq(p, lastIndexOf(p, "/") + 1, Len(p))

\* path.extname(p).slice(1)
extension(p) ==
    LET base == basename(p)
        dot == lastIndexOf(base, ".")
    IN  IF dot <= 1 THEN <<>> ELSE SubSeq(base, dot + 1, Len(base))

\* supportedFormats.looksLikeWindowsImage(path)
looksLikeWindowsImage(path) == lastIndexOf(basename(path), "w") # 0

\* What replaceWindowsNetworkDriveLetter resolves with.
replaceWindowsNetworkDriveLetter(path) ==
    IF path = PathNetworkDrive THEN PathShare ELSE path

SourceTypeOfFlow(flow) ==
    CASE flow = "url" -> "Http"
      [] flow = "clone" -> "BlockDevice"
      [] OTHER -> "File"

IdleOp ==
    [pc |-> "idle", flow |-> "none", SourceType |-> "none", imagePath |-> <<>>,
     created |-> FALSE, closes |-> 0, failedAt |-> "none",
     partitionTable |-> "none", handed |-> <<>>, warned |-> <<>>,
     after |-> <<>>, errors |-> <<>>]

NoIpc == [received |-> FALSE, isURL |-> FALSE, started |-> "none",
          thrown |-> FALSE]

\* errors.createUserError({title, ...}) shown by osDialog.showError.
userError(title, sourcePath) == [title |-> title, sourcePath |-> sourcePath]

\* Mutant of imageWarning: the missing partition table is looked at first.
imageWarningPartitionFirst(image) ==
    IF ~image.hasMBR THEN <<"Missing partition table">>
    ELSE IF looksLikeWindowsImage(image.path)
    THEN <<"Possible Windows image detected">>
    ELSE <<>>

\* The title of the warning selectImage sets for an image, if any.
imageWarning(image) ==
    IF looksLikeWindowsImage(image.path)
    THEN <<"Possible Windows image detected">>
    ELSE IF ~image.hasMBR THEN <<"Missing partition table">>
    ELSE <<>>

\* getMetadata: the metadata of the source and what getPartitionTable
\* returned.
getMetadata(sourcePath, partitionTable) ==
    [path |-> sourcePath,
     hasMBR |-> IF partitionTable # "undefined" THEN TRUE ELSE FALSE,
     extension |-> <<>>]

\* The first slot that no call occupies.
freeSlot ==
    IF \E k \in 1..MaxOps : ops[k].pc \in {"idle", "done"}
    THEN CHOOSE k \in 1..MaxOps :
             /\ ops[k].pc \in {"idle", "done"}
             /\ \A j \in 1..(k - 1) : ops[j].pc \notin {"idle", "done"}
    ELSE 0

SourceIdle ==
    /\ warning = <<>>
    /\ ops = [k \in 1..MaxOps |-> IdleOp]
    /\ ipc = NoIpc

SourceInit ==
    /\ availableDrives = {}
    /\ selectedDevices = <<>>
    /\ selectedImage = <<>>
    /\ SourceIdle

\* The store changes and its observers are told.
storeSetsImage(image) ==
    /\ selectedImage' = image
    /\ notifyTargetSelector(selectedDevices, image)
    /\ UNCHANGED <<availableDrives, selectedDevices, targetSelector,
                   showTargetSelectorModal, lastCall>>

storeUnchanged == UNCHANGED <<storeVars, targetVars>>

\* selectImageByPath is called, by openImageSelector ("file"), onDrop
\* ("drop") or the URL dialog's done ("url"), and awaits
\* replaceWindowsNetworkDriveLetter.
selectImageByPath(flow, imagePath) ==
    /\ freeSlot # 0
    /\ ops' = [ops EXCEPT ![freeSlot] =
                  [IdleOp EXCEPT !.pc = "replace", !.flow = flow,
                                 !.SourceType = SourceTypeOfFlow(flow),
                                 !.imagePath = imagePath]]
    /\ ipc' = NoIpc
    /\ UNCHANGED warning
    /\ storeUnchanged
    /\ UNCHANGED notSource

\* The call after replaceWindowsNetworkDriveLetter settled: a File source
\* is created, or an Http source if the protocol is supported.
sourceCreated(op, imagePath) ==
    IF op.SourceType = "File"
           \/ StartsWith(imagePath, SchemeHttps)
           \/ StartsWith(imagePath, SchemeHttp)
    THEN [op EXCEPT !.imagePath = imagePath, !.created = TRUE, !.pc = "inner"]
    ELSE [op EXCEPT !.imagePath = imagePath, !.pc = "done",
                    !.errors = Append(@, userError("Unsupported protocol", <<>>))]

replaceSettled(k, resolved) ==
    /\ ops[k].pc = "replace"
    /\ ops' = [ops EXCEPT ![k] =
                  sourceCreated(ops[k],
                      IF resolved
                      THEN replaceWindowsNetworkDriveLetter(ops[k].imagePath)
                      ELSE ops[k].imagePath)]
    /\ ipc' = NoIpc
    /\ UNCHANGED warning
    /\ storeUnchanged
    /\ UNCHANGED notSource

\* Mutant of handleError: the call returns from the catch, its source is
\* never closed.
handleErrorLeaks(op, title, sourcePath, failedAt) ==
    [op EXCEPT !.failedAt = failedAt,
               !.errors = Append(@, userError(title, sourcePath)),
               !.pc = "done"]

\* The catch and the finally of both operations: handleError shows one error
\* dialog, then source.close() is called and awaited.
handleError(op, title, sourcePath, failedAt) ==
    [op EXCEPT !.failedAt = failedAt,
               !.errors = Append(@, userError(title, sourcePath)),
               !.closes = @ + 1, !.pc = "closing"]

errorTitle(op) ==
    IF op.SourceType = "BlockDevice" THEN "Error opening drive"
    ELSE "Error opening image"

errorSourcePath(op) ==
    IF op.SourceType = "BlockDevice" THEN op.imagePath
    ELSE basename(op.imagePath)

\* source.getInnerSource() settles.
getInnerSourceSettled(k, resolved) ==
    /\ ops[k].pc = "inner"
    /\ ops' = [ops EXCEPT ![k] =
                  IF resolved THEN [ops[k] EXCEPT !.pc = "metadata"]
                  ELSE handleError(ops[k], errorTitle(ops[k]),
                                   errorSourcePath(ops[k]), "getInnerSource")]
    /\ ipc' = NoIpc
    /\ UNCHANGED warning
    /\ storeUnchanged
    /\ UNCHANGED notSource

\* source.getMetadata() settles.
getMetadataSettled(k, resolved) ==
    /\ ops[k].pc = "metadata"
    /\ ops' = [ops EXCEPT ![k] =
                  IF resolved THEN [ops[k] EXCEPT !.pc = "partition"]
                  ELSE handleError(ops[k], errorTitle(ops[k]),
                                   errorSourcePath(ops[k]), "getMetadata")]
    /\ ipc' = NoIpc
    /\ UNCHANGED warning
    /\ storeUnchanged
    /\ UNCHANGED notSource

\* Mutant of afterExtraction: afterSelected is called before the image is
\* handed to the selection state.
afterExtractionEarly(op, image, partitionTable) ==
    [op EXCEPT !.partitionTable = partitionTable,
               !.warned = imageWarning(image),
               !.after = Append(@, [imagePath |-> op.imagePath,
                                    SourceType |-> op.SourceType,
                                    handedBefore |-> op.handed # <<>>]),
               !.handed = <<image>>,
               !.closes = @ + 1, !.pc = "closing"]

\* The call once the metadata is there: selectImage(metadata), then
\* afterSelected, then the finally.
afterExtraction(op, image, partitionTable) ==
    LET selected == [op EXCEPT !.partitionTable = partitionTable,
                               !.warned = imageWarning(image),
                               !.handed = <<image>>]
    IN  [selected EXCEPT
             !.after = Append(@, [imagePath |-> op.imagePath,
                                  SourceType |-> op.SourceType,
                                  handedBefore |-> selected.handed # <<>>]),
             !.closes = @ + 1, !.pc = "closing"]

\* source.getPartitionTable() settles with a table or with undefined, and
\* the selection state accepts the image or throws.
getPartitionTableResolved(k, partitionTable, accepted) ==
    /\ ops[k].pc = "partition"
    /\ LET metadata == getMetadata(ops[k].imagePath, partitionTable)
           image == IF ops[k].SourceType = "BlockDevice" THEN metadata
                    ELSE [metadata EXCEPT
                              !.extension = extension(ops[k].imagePath)]
       IN  /\ ops' = [ops EXCEPT ![k] =
                         afterExtraction(ops[k], image, partitionTable)]
           /\ warning' = IF imageWarning(image) # <<>>
                         THEN imageWarning(image) ELSE warning
           /\ IF accepted THEN storeSetsImage(<<image>>) ELSE storeUnchanged
    /\ ipc' = NoIpc
    /\ UNCHANGED notSource

\* source.getPartitionTable() throws.
getPartitionTableRejected(k) ==
    /\ ops[k].pc = "partition"
    /\ ops' = [ops EXCEPT ![k] =
                  handleError(ops[k], errorTitle(ops[k]),
                              errorSourcePath(ops[k]), "getPartitionTable")]
    /\ ipc' = NoIpc
    /\ UNCHANGED warning
    /\ storeUnchanged
    /\ UNCHANGED notSource

\* source.close() settles; a failure is swallowed.  The call has returned:
\* what is kept of it is its outcome (the afterSelected call, the error
\* dialog) and that its source was created and how often it was closed.
closeSettled(k, resolved) ==
    /\ ops[k].pc = "closing"
    /\ ops' = [ops EXCEPT ![k] =
                  [IdleOp EXCEPT !.pc = "done", !.created = ops[k].created,
                                 !.closes = ops[k].closes,
                                 !.after = ops[k].after,
                                 !.errors = ops[k].errors]]
    /\ ipc' = NoIpc
    /\ UNCHANGED warning
    /\ storeUnchanged
    /\ UNCHANGED notSource

\* selectDriveAsImage is called by the drive dialog's done: the BlockDevice
\* source is created and getMetadata is awaited.
selectDriveAsImage(devicePath) ==
    /\ freeSlot # 0
    /\ ops' = [ops EXCEPT ![freeSlot] =
                  [IdleOp EXCEPT !.pc = "metadata", !.flow = "clone",
                                 !.SourceType = SourceTypeOfFlow("clone"),
                                 !.imagePath = devicePath, !.created = TRUE]]
    /\ ipc' = NoIpc
    /\ UNCHANGED warning
    /\ storeUnchanged
    /\ UNCHANGED notSource

\* componentDidMount hands this.onSelectImage itself to ipcRenderer.on: the
\* constructor binds nothing, so the emitter calls it with itself as this.
listenerThis == "ipcRenderer"

\* Whether this.selectImageByPath is a function.
hasSelectImageByPath(receiver) == receiver = "SourceSelector"

\* onSelectImage, called for a 'select-image' message.
onSelectImage(imagePath) ==
    LET isURL == StartsWith(imagePath, SchemeHttps)
                     \/ StartsWith(imagePath, SchemeHttp)
        flow == IF isURL THEN "url" ELSE "file"
    IN  IF hasSelectImageByPath(listenerThis)
        THEN /\ freeSlot # 0
             /\ ops' = [ops EXCEPT ![freeSlot] =
                           [IdleOp EXCEPT !.pc = "replace", !.flow = flow,
                                          !.SourceType = SourceTypeOfFlow(flow),
                                          !.imagePath = imagePath]]
             /\ ipc' = [received |-> TRUE, isURL |-> isURL,
                        started |-> SourceTypeOfFlow(flow), thrown |-> FALSE]
             /\ UNCHANGED warning
             /\ storeUnchanged
             /\ UNCHANGED notSource
        ELSE /\ ipc' = [received |-> TRUE, isURL |-> isURL,
                        started |-> "none", thrown |-> TRUE]
             /\ UNCHANGED <<warning, ops>>
             /\ storeUnchanged
             /\ UNCHANGED notSource

\* reselectImage, the Remove button.
reselectImage ==
    /\ selectedImage # <<>>
    /\ storeSetsImage(<<>>)
    /\ ipc' = NoIpc
    /\ UNCHANGED <<warning, ops>>
    /\ UNCHANGED notSource

\* The warning's cancel: the warning goes and the image is deselected.
warningCancel ==
    /\ warning # <<>>
    /\ warning' = <<>>
    /\ storeSetsImage(<<>>)
    /\ ipc' = NoIpc
    /\ UNCHANGED ops
    /\ UNCHANGED notSource

\* The warning's done ("Continue").
warningDone ==
    /\ warning # <<>>
    /\ warning' = <<>>
    /\ ipc' = NoIpc
    /\ UNCHANGED ops
    /\ storeUnchanged
    /\ UNCHANGED notSource

SourceNext ==
    \/ \E path \in FilePaths : selectImageByPath("file", path)
    \/ \E path \in DroppedPaths : selectImageByPath("drop", path)
    \/ \E url \in UrlInputs : selectImageByPath("url", url)
    \/ selectDriveAsImage(DevicePath)
    \/ \E k \in 1..MaxOps, resolved \in BOOLEAN : replaceSettled(k, resolved)
    \/ \E k \in 1..MaxOps, resolved \in BOOLEAN :
           getInnerSourceSettled(k, resolved)
    \/ \E k \in 1..MaxOps, resolved \in BOOLEAN : getMetadataSettled(k, resolved)
    \/ \E k \in 1..MaxOps, partitionTable \in {"table", "undefined"},
          accepted \in BOOLEAN :
           getPartitionTableResolved(k, partitionTable, accepted)
    \/ \E k \in 1..MaxOps : getPartitionTableRejected(k)
    \/ \E k \in 1..MaxOps, resolved \in BOOLEAN : closeSettled(k, resolved)
    \/ \E path \in IpcPaths : onSelectImage(path)
    \/ reselectImage
    \/ warningCancel
    \/ warningDone

-----------------------------------------------------------------------------
(* The specifications, one per component.                                  *)

InitRecent ==
    RecentInit /\ SettingsIdle /\ StoreIdle /\ TargetIdle /\ SourceIdle
SpecRecent == InitRecent /\ [][RecentNext]_vars

InitSettings ==
    SettingsInit /\ RecentIdle /\ StoreIdle /\ TargetIdle /\ SourceIdle
SpecSettings == InitSettings /\ [][SettingsNext]_vars

\* The dialog while the user toggles nothing; a promise that can resolve
\* does resolve.
LoadNext ==
    \/ resolveGetSettingsList
    \/ \E fresh \in BOOLEAN : resolveGetAll(fresh)

InitLoad ==
    SettingsInit /\ RecentIdle /\ StoreIdle /\ TargetIdle /\ SourceIdle
SpecLoad ==
    /\ InitLoad
    /\ [][LoadNext]_vars
    /\ WF_vars(resolveGetSettingsList)
    /\ WF_vars(\E fresh \in BOOLEAN : resolveGetAll(fresh))

InitTarget ==
    /\ TargetInit
    /\ RecentIdle
    /\ settingsStore \in InitialSettingsOfTarget
    /\ SettingsDialogIdle
    /\ SourceIdle
SpecTarget == InitTarget /\ [][TargetNext]_vars

InitSource == SourceInit /\ TargetIdle /\ RecentIdle /\ SettingsIdle
SpecSource == InitSource /\ [][SourceNext]_vars


-----------------------------------------------------------------------------
(* The list stored under the key, as JavaScript values.                    *)

storedList ==
    [i \in 1..Len(localStorage.items) |-> JSONparseScalar(localStorage.items[i])]

NonEmptyStrings(s) == \A i \in 1..Len(s) : isString(s[i]) /\ ~isEmpty(s[i])

\* C1: the list written to local storage by setRecentUrlImages and the list
\* returned by getRecentUrlImages have at most 5 entries, whatever local
\* storage held at the start and whatever URLs were confirmed.
RecentListCapped ==
    /\ Len(recentImages) <= RecentCap
    /\ Len(getRecentUrlImages(localStorage)) <= RecentCap
    /\ written => localStorage.kind = "array" /\ Len(storedList) <= RecentCap

\* A sixth distinct URL was confirmed on top of a full list.
RecentListCappedWitness ==
    /\ written
    /\ Len(recentImages) = RecentCap
    /\ loading
    /\ JsString(lastConfirmed) \notin Range(recentImages)
    /\ Len(storedList) = RecentCap

\* C2: the result of normalizeRecentUrlImages holds no value twice and only
\* non-empty strings, for the lists read from storage (arrays and
\* non-arrays) and for the lists written at a confirmation, also when the
\* confirmed URL was already in the list.
RecentListDeduplicated ==
    /\ NoDuplicates(recentImages) /\ NonEmptyStrings(recentImages)
    /\ NoDuplicates(getRecentUrlImages(localStorage))
    /\ NonEmptyStrings(getRecentUrlImages(localStorage))
    /\ written => NoDuplicates(storedList) /\ NonEmptyStrings(storedList)

\* A URL that was already in the list was confirmed again.
RecentListDeduplicatedWitness ==
    /\ written
    /\ loading
    /\ JsString(lastConfirmed) \in Range(recentImages)
    /\ Len(storedList) >= 2

\* C3: confirming a URL makes it the most recently used entry: it sits at
\* the newest end of the stored list, also when it was in the list already.
RecentListLRU ==
    (showURLSelector /\ loading) =>
        /\ Len(storedList) > 0
        /\ storedList[Len(storedList)] = JsString(lastConfirmed)

\* C4: after a confirmation of the non-empty URL u the stored list holds u,
\* whatever the list held before, and getRecentUrlImages returns exactly the
\* list that setRecentUrlImages stored.
RecentListPersisted ==
    /\ (showURLSelector /\ loading) =>
           /\ lastConfirmed # <<>>
           /\ JsString(lastConfirmed) \in Range(storedList)
    /\ written => getRecentUrlImages(localStorage) = storedList
    /\ (written /\ fetched /\ ~loading) => recentImages = storedList

\* A dialog opened after an overflowing confirmation reads the stored list,
\* with the confirmed URL in it.
RecentListPersistedWitness ==
    /\ written
    /\ fetched
    /\ ~loading
    /\ Len(recentImages) = RecentCap
    /\ recentImages[RecentCap] = JsString(lastConfirmed)
    /\ recentImages[1] = JsString(<<"b">>)

\* C5: when toggleSetting(name) completes, the store's value of name and the
\* displayed value of name are both the negation of the value displayed
\* before the toggle, and the displayed values of the other settings are
\* the ones displayed before the toggle.
ToggleWritesThrough ==
    [][\A i \in 1..Len(toggles) :
          (toggles' = withoutCall(i) /\ currentSettings' = toggledSettings(toggles[i])) =>
              LET name == toggles[i].setting
                  negated == IF Negate(toggles[i].value) THEN "true" ELSE "false"
              IN  /\ Lookup(settingsStore', name) = negated
                  /\ Lookup(currentSettings', name) = negated
                  /\ \A other \in SettingNames \ {name} :
                         Lookup(currentSettings', other)
                             = Lookup(toggles[i].closure, other)]_vars

\* C6: while the TargetSelector observes the store, its state slice equals
\* the slice computed from the store, after every change of the store.
TargetSelectorMirrorsStore ==
    targetSelector = "subscribed" =>
        stateSlice = getDriveSelectionStateSlice(settingsStore, selectedDevices,
                                                 selectedImage)

\* The store changed under the observing component: a drive of two was
\* deselected, an image is selected, and the slice shows both.
TargetSelectorMirrorsStoreWitness ==
    /\ targetSelector = "subscribed"
    /\ lastCall.called
    /\ Len(lastCall.before) = 2
    /\ Len(stateSlice.targets) = 1
    /\ stateSlice.targets[1].device \in Range(lastCall.before)
    /\ stateSlice.image # <<>>
    /\ ~stateSlice.showDrivesButton

\* The devices of the calls of one kind in a log, in order.
callsOf(log, kind) ==
    LET Is(entry) == entry.kind = kind
        calls == SelectSeq(log, Is)
    IN  [i \in 1..Len(calls) |-> calls[i].device]

devicesOf(drives) == { drives[i].device : i \in 1..Len(drives) }

\* C7: selectAllTargets(M) calls deselectDrive exactly for the selected
\* drives whose device is not in M, once each, and never for a drive in both;
\* when the store accepts every selectDrive it calls selectDrive for every
\* drive of M, in order, and the devices selected afterwards are those of M.
SelectAllTargetsRevalidates ==
    lastCall.called =>
        LET before == Range(lastCall.before)
            modal == devicesOf(lastCall.modalTargets)
            deselects == callsOf(lastCall.log, "deselectDrive")
            selects == callsOf(lastCall.log, "selectDrive")
        IN  /\ NoDuplicates(deselects)
            /\ Range(deselects) = before \ modal
            /\ \A d \in before \cap modal : d \notin Range(deselects)
            /\ ~lastCall.thrown =>
                   /\ selects = [i \in 1..Len(lastCall.modalTargets) |->
                                    lastCall.modalTargets[i].device]
                   /\ Range(selectedDevices) = modal
            /\ lastCall.thrown => ~(modal \subseteq availableDrives)

\* A confirmation that keeps one drive, drops one and adds one.
SelectAllTargetsRevalidatesWitness ==
    /\ lastCall.called
    /\ ~lastCall.thrown
    /\ Range(lastCall.before) \cap devicesOf(lastCall.modalTargets) # {}
    /\ Range(lastCall.before) \ devicesOf(lastCall.modalTargets) # {}
    /\ devicesOf(lastCall.modalTargets) \ Range(lastCall.before) # {}

\* The calls that have handed an image to selectImage.
selections == {k \in 1..MaxOps : ops[k].handed # <<>>}

\* C8: for every image handed to selectImage, hasMBR is true exactly when
\* the SDK returned a partition table; the warning set is 'Possible Windows
\* image detected' when the path looks like a Windows image, otherwise
\* 'Missing partition table' exactly when hasMBR is false, otherwise none;
\* never more than one warning per selection.
SelectImageWarning ==
    \A k \in selections :
        LET image == ops[k].handed[1]
            windows == looksLikeWindowsImage(image.path)
        IN  /\ image.hasMBR <=> ops[k].partitionTable = "table"
            /\ windows => ops[k].warned = <<"Possible Windows image detected">>
            /\ (~windows /\ ~image.hasMBR)
                   => ops[k].warned = <<"Missing partition table">>
            /\ (~windows /\ image.hasMBR) => ops[k].warned = <<>>
            /\ Len(ops[k].warned) <= 1

\* A Windows-looking image without partition table was selected and got the
\* Windows warning, which is the one displayed.
SelectImageWarningWitness ==
    \E k \in selections :
        /\ looksLikeWindowsImage(ops[k].handed[1].path)
        /\ ~ops[k].handed[1].hasMBR
        /\ ops[k].partitionTable = "undefined"
        /\ ops[k].warned = <<"Possible Windows image detected">>
        /\ warning = ops[k].warned

\* The calls whose SDK work is over: they are in their finally.
settled == {k \in 1..MaxOps : ops[k].pc = "closing"}

\* The SourceType each flow passes on.
flowSourceType ==
    [flow \in {"file", "drop", "url", "clone"} |->
        CASE flow = "url" -> "Http"
          [] flow = "clone" -> "BlockDevice"
          [] OTHER -> "File"]

\* C9: in every flow afterSelected is called exactly when the SDK's
\* metadata extraction succeeded, once, with the flow's SourceType and after
\* the image was handed to selectionState.selectImage; when the SDK failed,
\* afterSelected is not called, nothing was handed to the selection state
\* and one error dialog is shown.
AfterSelectedOnSuccess ==
    /\ \A k \in 1..MaxOps :
           /\ ops[k].after # <<>> => /\ ops[k].pc \in {"closing", "done"}
                                     /\ ops[k].failedAt = "none"
                                     /\ ops[k].errors = <<>>
           /\ ops[k].failedAt # "none" => k \in settled
    /\ \A k \in settled :
           IF ops[k].failedAt = "none"
           THEN /\ Len(ops[k].after) = 1
                /\ ops[k].after[1].SourceType = flowSourceType[ops[k].flow]
                /\ ops[k].after[1].imagePath = ops[k].imagePath
                /\ ops[k].after[1].handedBefore
                /\ ops[k].handed # <<>>
                /\ ops[k].errors = <<>>
           ELSE /\ ops[k].after = <<>>
                /\ ops[k].handed = <<>>
                /\ Len(ops[k].errors) = 1

\* A URL was selected and afterSelected got it as an Http source, while the
\* selection state holds the image handed over.
AfterSelectedOnSuccessWitness ==
    \E k \in settled :
        /\ ops[k].flow = "url"
        /\ ops[k].after = <<[imagePath |-> UrlHttps, SourceType |-> "Http",
                             handedBefore |-> TRUE]>>
        /\ selectedImage = ops[k].handed

\* C10, the first half: an Http source whose path starts with neither
\* 'http://' nor 'https://' gets the 'Unsupported protocol' dialog and
\* returns; no source is created, nothing is handed to the selection state,
\* afterSelected is not called.
UnsupportedProtocolRejected ==
    \A k \in 1..MaxOps :
        (/\ ops[k].SourceType = "Http"
         /\ ops[k].pc # "replace"
         /\ ~StartsWith(ops[k].imagePath, SchemeHttp)
         /\ ~StartsWith(ops[k].imagePath, SchemeHttps))
            => /\ ops[k].pc = "done"
               /\ ops[k].errors = <<userError("Unsupported protocol", <<>>)>>
               /\ ~ops[k].created
               /\ ops[k].handed = <<>>
               /\ ops[k].after = <<>>

\* C10: a URL source must be an HTTP resource, and a path received on the
\* 'select-image' channel is selected as an Http source exactly when it
\* starts with 'http://' or 'https://', as a File source otherwise.
SelectImageMessageByProtocol ==
    /\ UnsupportedProtocolRejected
    /\ ipc.received
           => ipc.started = (IF ipc.isURL THEN "Http" ELSE "File")

\* The devices of the 'Toggle drive' events of a log with one value of
\* previouslySelected, in order.
eventsOf(log, previouslySelected) ==
    LET Is(entry) == /\ entry.kind = "Toggle drive"
                     /\ entry.previouslySelected = previouslySelected
        events == SelectSeq(log, Is)
    IN  [i \in 1..Len(events) |-> events[i].device]

\* The devices selected in the store when entry i of a call's log is
\* reached.
selectedAt(before, log, i) ==
    (before \ { log[j].device : j \in { n \in 1..(i - 1) :
                                          log[n].kind = "deselectDrive" } })
        \cup { log[j].device : j \in { n \in 1..(i - 1) :
                                          log[n].kind = "selectDrive" } }

\* Whether entry i of a log belongs to a deselection.
isDeselection(log, i) ==
    \/ log[i].kind = "deselectDrive"
    \/ log[i].kind = "Toggle drive" /\ log[i].previouslySelected

\* C11: selectAllTargets logs 'Toggle drive' only for selection deltas: one
\* event with previouslySelected true for each selected drive absent from
\* the modal targets, one with previouslySelected false for each modal target
\* not selected when it is processed, none for a drive that was selected and
\* stays selected; every deselection and its event precede every selection.
ToggleEventsAreDeltas ==
    lastCall.called =>
        LET log == lastCall.log
            before == Range(lastCall.before)
            modal == devicesOf(lastCall.modalTargets)
            removed == eventsOf(log, TRUE)
            added == eventsOf(log, FALSE)
        IN  /\ NoDuplicates(removed)
            /\ Range(removed) = before \ modal
            /\ NoDuplicates(added)
            /\ Range(added) \subseteq modal \ before
            /\ ~lastCall.thrown => Range(added) = modal \ before
            /\ \A i \in 1..Len(log) :
                   /\ log[i].kind = "Toggle drive"
                          => /\ i < Len(log)
                             /\ log[i + 1].device = log[i].device
                             /\ log[i + 1].kind =
                                    (IF log[i].previouslySelected
                                     THEN "deselectDrive" ELSE "selectDrive")
                   /\ log[i].kind = "deselectDrive"
                          => i > 1 /\ log[i - 1].kind = "Toggle drive"
                   /\ log[i].kind = "selectDrive"
                          => (log[i].device \notin selectedAt(before, log, i)
                                 <=> /\ i > 1
                                     /\ log[i - 1] =
                                            toggleEvent(log[i].device, FALSE))
            /\ \A d \in before \cap modal :
                   \A i \in 1..Len(log) :
                       log[i].kind = "Toggle drive" => log[i].device # d
            /\ \A i, j \in 1..Len(log) :
                   (isDeselection(log, i) /\ ~isDeselection(log, j)) => i < j

\* A confirmation that logs a deselection and then a selection, and keeps
\* a drive without an event.
ToggleEventsAreDeltasWitness ==
    /\ lastCall.called
    /\ ~lastCall.thrown
    /\ Len(eventsOf(lastCall.log, TRUE)) = 1
    /\ Len(eventsOf(lastCall.log, FALSE)) = 1
    /\ Len(callsOf(lastCall.log, "selectDrive")) = 2
    /\ Range(lastCall.before) \cap devicesOf(lastCall.modalTargets) # {}

\* C12: once a call has created its source, source.close() is called exactly
\* once before the call finishes, after a successful extraction and after
\* every failing one, and never before; when close() settles, resolved or
\* rejected, the call finishes with its afterSelected call, its error dialog,
\* the selection state and the warning as they were.
SourceClosedOnce ==
    /\ [](\A k \in 1..MaxOps :
              /\ ops[k].pc \in {"idle", "replace"}
                     => ~ops[k].created /\ ops[k].closes = 0
              /\ ops[k].pc \in {"inner", "metadata", "partition"}
                     => ops[k].created /\ ops[k].closes = 0
              /\ ops[k].pc = "closing"
                     => ops[k].created /\ ops[k].closes = 1
              /\ ops[k].pc = "done"
                     => ops[k].closes = (IF ops[k].created THEN 1 ELSE 0))
    /\ [][\A k \in 1..MaxOps :
              (ops[k].pc = "closing" /\ ops'[k].pc = "done")
                  => /\ ops'[k].after = ops[k].after
                     /\ ops'[k].errors = ops[k].errors
                     /\ ops'[k].closes = ops[k].closes
                     /\ selectedImage' = selectedImage
                     /\ warning' = warning]_vars

\* A call whose extraction failed has finished: one error dialog, no
\* afterSelected, its source closed once.
SourceClosedOnceWitness ==
    \E k \in 1..MaxOps :
        /\ ops[k].pc = "done"
        /\ ops[k].created
        /\ ops[k].closes = 1
        /\ Len(ops[k].errors) = 1
        /\ ops[k].after = <<>>

\* The value of a setting found as value and negated as often as negations
\* says.
negatedTimes(value, times) ==
    CASE times = 0 -> value
      [] times = 1 -> IF Negate(value) THEN "true" ELSE "false"
      [] OTHER -> IF Negate(IF Negate(value) THEN "true" ELSE "false")
                  THEN "true" ELSE "false"

\* C13: for any interleaving of toggleSetting calls, once the load and every
\* call have completed and the dialog displays a value for every setting,
\* the value displayed for each setting equals the value in the store, and
\* a setting toggled n times has been negated n times.
SettingsConsistentAfterToggles ==
    (/\ toggles = <<>>
     /\ pendingAll = 0
     /\ DOMAIN currentSettings = SettingNames) =>
        \A setting \in SettingNames :
            /\ Lookup(currentSettings, setting) = Lookup(settingsStore, setting)
            /\ Lookup(settingsStore, setting) =
                   negatedTimes(Lookup(foundSettings, setting),
                                IF setting \in ClickedSettings
                                THEN negations[setting] ELSE 0)

\* C14: after the mount getSettingsList and settings.getAll are called
\* finitely many times whatever the store returns: while no toggle occurs,
\* eventually both loads have resolved, no load is pending or issued any
\* more, and the dialog's state is the loaded one for good.
SettingsLoadTerminates ==
    /\ <>[][listCalls' = listCalls /\ getAllCalls' = getAllCalls]_vars
    /\ <>[](/\ pendingList = 0
            /\ pendingAll = 0
            /\ settingsList = getSettingsList
            /\ currentSettings = settingsStore)

====
